---- MODULE Spec2Model ----
(***************************************************************************)
(* Senior News Daily: the client-side customizer of site/custom-features.js *)
(* (class SeniorNewsCustomizer): the custom feed registry, the deleted      *)
(* article registry, their localStorage records and the DOM fragments the   *)
(* controller keeps in step with them.                                      *)
(*                                                                         *)
(* Text is modelled as a sequence of tokens (a token is a run of            *)
(* characters); article URLs are single strings.  A localStorage record is  *)
(* missing, unparseable text, or a JSON tree [t |-> tag, v |-> payload].    *)
(***************************************************************************)
EXTENDS Integers, Sequences, FiniteSets, TLC

VARIABLES
    store,            \* localStorage: [feeds |-> record, deleted |-> record]
    phase,            \* "loading" | "ready" (window.sndCustomizer set) |
                      \* "reloading" (location.reload() called) | "crashed"
    customFeeds,      \* this.customFeeds
    deletedArticles,  \* this.deletedArticles
    customCount,      \* textContent of #snd-custom-count ("" while absent)
    deletedCount,     \* textContent of #snd-deleted-count ("" while absent)
    activeBadge,      \* text of the "Custom Feeds Active" badge ("" while absent)
    page,             \* the document's list items and their links (static)
    items,            \* per list item: marker class and action control
    clock,            \* Date.now()
    alertMsg,         \* the dialog the last handler showed ("none" if none)
    manageOpen,       \* #snd-manage-feeds-modal is displayed
    feedsList,        \* what #snd-feeds-list shows
    other,            \* the controller of a second tab on the same Store:
                      \* [phase, feeds, deleted] ("closed" while there is none)
    pendingCopy,      \* the texts of the clipboard writes not yet settled
    listingShown,     \* the listing in the fallback dialog of the export
    uncaught,         \* the exception a handler of this page load let escape
                      \* ("none" if none did)
    clipboardText,    \* what the system clipboard holds
    readyState,       \* document.readyState of the page with the category chips
    cards,            \* its .card elements: data-category and style.display
    chips,            \* the .chip buttons of #chips: key, text, class active
    mountListeners,   \* the mount closures of thanks.js listening for
                      \* DOMContentLoaded
    supportNotes      \* the number of #support-note elements in the document

\* what belongs to one page load besides the controller's own fields
session == <<pendingCopy, listingShown, uncaught>>

\* what the other scripts of the site own: assets/app.js and assets/thanks.js
scripts == <<readyState, cards, chips, mountListeners, supportNotes>>

\* what lies outside the customizer
outside == <<clipboardText, scripts>>

vars == <<store, phase, customFeeds, deletedArticles, customCount, deletedCount,
          activeBadge, page, items, clock, alertMsg, manageOpen, feedsList, other,
          session, outside>>

(***************************************************************************)
(* Bounds of the model.                                                    *)
(***************************************************************************)
MaxFeeds == 2
MaxClock == 2
MaxPending == 1

(***************************************************************************)
(* Text.                                                                   *)
(***************************************************************************)
WS == " "

IsBlankToken(c) == c = WS

RECURSIVE TrimStart(_)
TrimStart(s) ==
    IF s = <<>> THEN <<>>
    ELSE IF IsBlankToken(Head(s)) THEN TrimStart(Tail(s))
    ELSE s

RECURSIVE TrimEnd(_)
TrimEnd(s) ==
    IF s = <<>> THEN <<>>
    ELSE IF IsBlankToken(s[Len(s)]) THEN TrimEnd(SubSeq(s, 1, Len(s) - 1))
    ELSE s

\* String.prototype.trim
Trim(s) == TrimEnd(TrimStart(s))

\* new URL(url) with no base: succeeds for a special scheme followed by an
\* authority, throws for the empty string, a bare scheme and a relative
\* reference.
Schemes == {"https:"}
Authorities == {"//f.example/rss"}
NewURLThrows(s) == ~(Len(s) >= 2 /\ s[1] \in Schemes /\ s[2] \in Authorities)

\* new Date().toISOString()
toISOString(now) == <<"T", ToString(now)>>

General == <<"General">>

(***************************************************************************)
(* JSON text and localStorage records.                                     *)
(***************************************************************************)
JNull == [t |-> "null", v |-> 0]
JBool(b) == [t |-> "bool", v |-> b]
JNum(n) == [t |-> "num", v |-> n]
JStr(s) == [t |-> "str", v |-> s]
JArr(elems) == [t |-> "arr", v |-> elems]
JObj(members) == [t |-> "obj", v |-> members]

Missing == [k |-> "missing", j |-> JNull]
Corrupt == [k |-> "corrupt", j |-> JNull]
Text(j) == [k |-> "json", j |-> j]

\* a serializer that leaves `enabled` out, read back with the default
StringifyFeedEnabledLost(f) ==
    JObj(<< <<"id", JNum(f.id)>>, <<"name", JStr(f.name)>>, <<"url", JStr(f.url)>>,
            <<"category", JStr(f.category)>>, <<"dateAdded", JStr(f.dateAdded)>>,
            <<"enabled", JBool(TRUE)>> >>)

\* JSON.stringify of one feed entry: the own properties in creation order
StringifyFeed(f) ==
    JObj(<< <<"id", JNum(f.id)>>, <<"name", JStr(f.name)>>, <<"url", JStr(f.url)>>,
            <<"category", JStr(f.category)>>, <<"dateAdded", JStr(f.dateAdded)>>,
            <<"enabled", JBool(f.enabled)>> >>)

\* JSON.stringify(this.customFeeds)
StringifyFeeds(fs) == JArr([i \in 1..Len(fs) |-> StringifyFeed(fs[i])])

\* JSON.stringify(this.deletedArticles)
StringifyUrls(us) == JArr([i \in 1..Len(us) |-> JStr(us[i])])

\* property lookup on a parsed object
Member(members, key) ==
    (CHOOSE i \in 1..Len(members) : members[i][1] = key)

\* reading the entries back out of a parsed array of feed objects
FeedOfObject(j) ==
    LET prop(key) == j.v[Member(j.v, key)][2].v
    IN  [id |-> prop("id"), name |-> prop("name"), url |-> prop("url"),
         category |-> prop("category"), dateAdded |-> prop("dateAdded"),
         enabled |-> prop("enabled")]

FeedsOfArray(j) == [i \in 1..Len(j.v) |-> FeedOfObject(j.v[i])]

UrlsOfArray(j) == [i \in 1..Len(j.v) |-> j.v[i].v]

\* JSON.parse(localStorage.getItem(key)): getItem gives null for a missing key
\* and JSON.parse(null) is null; unparseable text throws SyntaxError
JSONparse(rec) ==
    IF rec.k = "missing" THEN [threw |-> FALSE, j |-> JNull]
    ELSE IF rec.k = "corrupt" THEN [threw |-> TRUE, j |-> JNull]
    ELSE [threw |-> FALSE, j |-> rec.j]

\* the values that `||` replaces
Falsy(j) ==
    \/ j.t = "null"
    \/ (j.t = "bool" /\ j.v = FALSE)
    \/ (j.t = "num" /\ j.v = 0)
    \/ (j.t = "str" /\ j.v = "")

\* load without the `|| []` default
loadCustomFeedsNoDefault(st) ==
    LET p == JSONparse(st.feeds)
    IN  IF p.threw THEN JArr(<<>>)
        ELSE p.j

\* try { return JSON.parse(...) || [] } catch (e) { return [] }
loadCustomFeeds(st) ==
    LET p == JSONparse(st.feeds)
    IN  IF p.threw THEN JArr(<<>>)
        ELSE IF Falsy(p.j) THEN JArr(<<>>)
        ELSE p.j

loadDeletedArticles(st) ==
    LET p == JSONparse(st.deleted)
    IN  IF p.threw THEN JArr(<<>>)
        ELSE IF Falsy(p.j) THEN JArr(<<>>)
        ELSE p.j

(***************************************************************************)
(* Feed registry.                                                          *)
(***************************************************************************)
\* addCustomFeed without the `|| 'General'` default
addCustomFeedNoDefault(feeds, feedData, now) ==
    LET feed == [id |-> now,
                 name |-> feedData.name,
                 url |-> feedData.url,
                 category |-> feedData.category,
                 dateAdded |-> toISOString(now),
                 enabled |-> TRUE]
    IN  [feeds |-> Append(feeds, feed), ret |-> feed]

\* addCustomFeed putting the new entry first (unshift for push)
addCustomFeedUnshift(feeds, feedData, now) ==
    LET feed == [id |-> now,
                 name |-> feedData.name,
                 url |-> feedData.url,
                 category |-> IF feedData.category = <<>> THEN General
                              ELSE feedData.category,
                 dateAdded |-> toISOString(now),
                 enabled |-> TRUE]
    IN  [feeds |-> <<feed>> \o feeds, ret |-> feed]

\* addCustomFeed: the collection after the push and the entry returned
addCustomFeed(feeds, feedData, now) ==
    LET feed == [id |-> now,
                 name |-> feedData.name,
                 url |-> feedData.url,
                 category |-> IF feedData.category = <<>> THEN General
                              ELSE feedData.category,
                 dateAdded |-> toISOString(now),
                 enabled |-> TRUE]
    IN  [feeds |-> Append(feeds, feed), ret |-> feed]

\* removeCustomFeed taking out the first match only
removeCustomFeedFirst(feeds, feedId) ==
    IF \E i \in 1..Len(feeds) : feeds[i].id = feedId
    THEN LET i == CHOOSE i \in 1..Len(feeds) :
                    /\ feeds[i].id = feedId
                    /\ \A k \in 1..(i - 1) : feeds[k].id # feedId
         IN  SubSeq(feeds, 1, i - 1) \o SubSeq(feeds, i + 1, Len(feeds))
    ELSE feeds

\* removeCustomFeed: filter(f => f.id !== feedId)
removeCustomFeed(feeds, feedId) == SelectSeq(feeds, LAMBDA f : f.id # feedId)

\* toggleCustomFeed switching the entry off instead of flipping it
toggleCustomFeedOff(feeds, feedId) ==
    IF \E i \in 1..Len(feeds) : feeds[i].id = feedId
    THEN LET i == CHOOSE i \in 1..Len(feeds) :
                    /\ feeds[i].id = feedId
                    /\ \A k \in 1..(i - 1) : feeds[k].id # feedId
         IN  [feeds |-> [feeds EXCEPT ![i].enabled = FALSE], save |-> TRUE]
    ELSE [feeds |-> feeds, save |-> FALSE]

\* find(f => f.id === feedId): index of the first match, 0 if none
FindFeed(feeds, feedId) ==
    IF \E i \in 1..Len(feeds) : feeds[i].id = feedId
    THEN CHOOSE i \in 1..Len(feeds) :
            /\ feeds[i].id = feedId
            /\ \A k \in 1..(i - 1) : feeds[k].id # feedId
    ELSE 0

\* toggleCustomFeed: the collection afterwards, and whether it was saved
toggleCustomFeed(feeds, feedId) ==
    LET i == FindFeed(feeds, feedId)
    IN  IF i # 0
        THEN [feeds |-> [feeds EXCEPT ![i].enabled = ~feeds[i].enabled], save |-> TRUE]
        ELSE [feeds |-> feeds, save |-> FALSE]

(***************************************************************************)
(* Deletion registry.                                                      *)
(***************************************************************************)
\* Array.prototype.includes on the in-memory collection
isArticleDeleted(deleted, articleUrl) ==
    \E i \in 1..Len(deleted) : deleted[i] = articleUrl

\* deleteArticle without the includes test
deleteArticleAlways(deleted, articleUrl) ==
    [deleted |-> Append(deleted, articleUrl), save |-> TRUE]

\* deleteArticle: the collection afterwards, and whether it was saved
deleteArticle(deleted, articleUrl) ==
    IF ~isArticleDeleted(deleted, articleUrl)
    THEN [deleted |-> Append(deleted, articleUrl), save |-> TRUE]
    ELSE [deleted |-> deleted, save |-> FALSE]

\* restoreArticle with the filter's test inverted
restoreArticleInverted(deleted, articleUrl) ==
    SelectSeq(deleted, LAMBDA url : url = articleUrl)

\* restoreArticle dropping the last entry instead of the matching ones
restoreArticlePop(deleted, articleUrl) ==
    SubSeq(deleted, 1, Len(deleted) - 1)

\* restoreArticle: filter(url => url !== articleUrl)
restoreArticle(deleted, articleUrl) ==
    SelectSeq(deleted, LAMBDA url : url # articleUrl)

(***************************************************************************)
(* The page: list items and the links they hold, in document order.  attr  *)
(* is the href attribute as written, href the resolved link.href.          *)
(***************************************************************************)
UrlA == "https://n.example/a"
UrlB == "https://n.example/b"
UrlC == "https://m.example/"

LinkA == [attr |-> UrlA, href |-> UrlA]
LinkB == [attr |-> UrlB, href |-> UrlB]
LinkC == [attr |-> "https://m.example", href |-> UrlC]
LinkAbout == [attr |-> "/about", href |-> "https://site.example/about"]

FrontPage == << <<LinkA, LinkB>>, <<LinkA>>, <<LinkAbout, LinkC>> >>

ListItems == 1..Len(page)

\* a[href^="http"]
IsOutbound(link) == link.attr \in {LinkA.attr, LinkB.attr, LinkC.attr}

\* a[href="url"] with closest('li'): the list items holding such a link
Matches(li, url) == \E n \in 1..Len(page[li]) : page[li][n].attr = url

NoControl == [kind |-> "none", url |-> ""]
Control(kind, url) == [kind |-> kind, url |-> url]

\* blocks: the number of .snd-article-actions elements in the list item
PristineItems ==
    [li \in ListItems |-> [hidden |-> FALSE, ctl |-> NoControl, blocks |-> 0]]

\* the first outbound link of a list item (0 if none): it is the one
\* decorated, the later ones find .snd-article-actions present
FirstOutbound(li) ==
    IF \E n \in 1..Len(page[li]) : IsOutbound(page[li][n])
    THEN CHOOSE n \in 1..Len(page[li]) :
            /\ IsOutbound(page[li][n])
            /\ \A k \in 1..(n - 1) : ~IsOutbound(page[li][k])
    ELSE 0

\* this.deletedArticles.includes(url) on whatever load returned: membership
\* for an array, substring test for a string (no modelled string is a proper
\* substring of a modelled URL)
Includes(v, url) ==
    IF v.t = "arr" THEN \E i \in 1..Len(v.v) : v.v[i] = JStr(url)
    ELSE v.v = url

\* .length of whatever load returned, as rendered into the template
LengthText(v) ==
    IF v.t \in {"arr", "str"} THEN ToString(Len(v.v)) ELSE "undefined"

\* the decoration without the test for a block already there
addDeleteButtonsToArticlesUnguarded(its, v) ==
    [li \in ListItems |->
        LET n == FirstOutbound(li)
        IN  IF n = 0 THEN its[li]
            ELSE LET articleUrl == page[li][n].href
                     isDeleted == Includes(v, articleUrl)
                 IN  [hidden |-> its[li].hidden \/ isDeleted,
                      ctl |-> IF its[li].blocks = 0
                              THEN Control(IF isDeleted THEN "restore" ELSE "remove",
                                           articleUrl)
                              ELSE its[li].ctl,
                      blocks |-> its[li].blocks + 1]]

\* addDeleteButtonsToArticles on list items `its` with deleted collection v:
\* a link whose list item already holds .snd-article-actions is passed over
addDeleteButtonsToArticles(its, v) ==
    [li \in ListItems |->
        LET n == FirstOutbound(li)
        IN  IF n = 0 \/ its[li].blocks # 0 THEN its[li]
            ELSE LET articleUrl == page[li][n].href
                     isDeleted == Includes(v, articleUrl)
                 IN  [hidden |-> its[li].hidden \/ isDeleted,
                      ctl |-> Control(IF isDeleted THEN "restore" ELSE "remove",
                                      articleUrl),
                      blocks |-> its[li].blocks + 1]]

\* applyArticleFilters
applyArticleFilters(its, deleted) ==
    [li \in ListItems |->
        IF \E i \in 1..Len(deleted) : Matches(li, deleted[i])
        THEN [its[li] EXCEPT !.hidden = TRUE]
        ELSE its[li]]

\* deleteArticleUI patching every decorated list item
markItemsAll(its, articleUrl) ==
    [li \in ListItems |->
        IF its[li].ctl.kind # "none"
        THEN [hidden |-> TRUE, ctl |-> Control("restore", articleUrl),
              blocks |-> its[li].blocks]
        ELSE its[li]]

\* the DOM part of deleteArticleUI
markItems(its, articleUrl) ==
    [li \in ListItems |->
        IF Matches(li, articleUrl)
        THEN [hidden |-> TRUE,
              ctl |-> IF its[li].ctl.kind # "none" THEN Control("restore", articleUrl)
                      ELSE its[li].ctl,
              blocks |-> its[li].blocks]
        ELSE its[li]]

\* the DOM part of restoreArticleUI
unmarkItems(its, articleUrl) ==
    [li \in ListItems |->
        IF Matches(li, articleUrl)
        THEN [hidden |-> FALSE,
              ctl |-> IF its[li].ctl.kind # "none" THEN Control("remove", articleUrl)
                      ELSE its[li].ctl,
              blocks |-> its[li].blocks]
        ELSE its[li]]

EnabledCount(feeds) == Cardinality({i \in 1..Len(feeds) : feeds[i].enabled})

(***************************************************************************)
(* The page-load bootstrap: constructor and init(), up to the step that     *)
(* throws, if one does.                                                     *)
(***************************************************************************)
Bootstrap(st) ==
    LET feedsV == loadCustomFeeds(st)
        delV == loadDeletedArticles(st)
        absent == [phase |-> "crashed", feeds |-> <<>>, deleted |-> <<>>,
                   customCount |-> "", deletedCount |-> "", activeBadge |-> "",
                   items |-> PristineItems]
    IN  IF feedsV.t # "arr"
        THEN \* addControlButtons: this.customFeeds.filter is not a function
             absent
        ELSE
        LET feeds == FeedsOfArray(feedsV)
            bar == [absent EXCEPT !.customCount = LengthText(feedsV),
                                  !.deletedCount = LengthText(delV),
                                  !.activeBadge = ToString(EnabledCount(feeds))]
        IN  IF delV.t \notin {"arr", "str"} /\ \E li \in ListItems : FirstOutbound(li) # 0
            THEN \* addDeleteButtonsToArticles: includes is not a function
                 bar
            ELSE
            LET decorated == addDeleteButtonsToArticles(PristineItems, delV)
            IN  IF delV.t # "arr"
                THEN \* applyArticleFilters: forEach is not a function
                     [bar EXCEPT !.items = decorated]
                ELSE
                LET deleted == UrlsOfArray(delV)
                IN  [phase |-> "ready", feeds |-> feeds, deleted |-> deleted,
                     customCount |-> ToString(Len(feeds)),
                     deletedCount |-> ToString(Len(deleted)),
                     activeBadge |-> bar.activeBadge,
                     items |-> applyArticleFilters(decorated, deleted)]

(***************************************************************************)
(* The management list (#snd-feeds-list inside #snd-manage-feeds-modal).    *)
(***************************************************************************)
\* <div id="snd-feeds-list"></div> as addModals inserts it
BlankList == [notice |-> FALSE, rows |-> <<>>]

\* one .snd-feed-item: the three texts shown and the id its Remove button passes
FeedItem(feed) ==
    [name |-> feed.name, url |-> feed.url, category |-> feed.category,
     removes |-> feed.id]

\* the innerHTML openManageFeedsModal gives the list
RenderFeedsList(feeds) ==
    IF Len(feeds) = 0 THEN [notice |-> TRUE, rows |-> <<>>]
    ELSE [notice |-> FALSE, rows |-> [i \in 1..Len(feeds) |-> FeedItem(feeds[i])]]

\* openManageFeedsModal, on the collection as the caller left it
openManageFeedsModal(feeds) ==
    /\ feedsList' = RenderFeedsList(feeds)
    /\ manageOpen' = TRUE

\* no second tab
NoOther == [phase |-> "closed", feeds |-> <<>>, deleted |-> <<>>]

(***************************************************************************)
(* Saving.                                                                 *)
(***************************************************************************)
\* saveCustomFeeds keeping the stored entries that the collection lacks
saveCustomFeedsMerging(st, feeds) ==
    LET stored == FeedsOfArray(loadCustomFeeds(st))
        kept == SelectSeq(stored, LAMBDA f : \A i \in 1..Len(feeds) : feeds[i] # f)
    IN  [st EXCEPT !.feeds = Text(StringifyFeeds(kept \o feeds))]

\* localStorage.setItem('snd_customFeeds', JSON.stringify(this.customFeeds))
saveCustomFeeds(st, feeds) == [st EXCEPT !.feeds = Text(StringifyFeeds(feeds))]

\* saveDeletedArticles that writes nothing
saveDeletedArticlesSkipped(st, deleted) == st

\* localStorage.setItem('snd_deletedArticles', JSON.stringify(this.deletedArticles))
saveDeletedArticles(st, deleted) == [st EXCEPT !.deleted = Text(StringifyUrls(deleted))]

\* updateStats refreshing the feed count only
updateStatsFeedsOnly(feeds, deleted) ==
    /\ customCount' = ToString(Len(feeds))
    /\ deletedCount' = deletedCount

\* updateStats, with the collections as they are after the handler's change
updateStats(feeds, deleted) ==
    /\ customCount' = ToString(Len(feeds))
    /\ deletedCount' = ToString(Len(deleted))

(***************************************************************************)
(* What the user can type into the add-feed form.                          *)
(***************************************************************************)
NameInputs == {<<>>, <<WS, "A", WS>>}
UrlInputs == {<<WS>>, <<"rss">>, <<WS, "https:", "//f.example/rss">>}
CategoryInputs == {<<>>, <<WS>>, <<WS, "Lifestyle">>}

FeedIds == 0..MaxClock

ArticleUrls == {UrlA, UrlB, UrlC}

(***************************************************************************)
(* Actions.                                                                *)
(***************************************************************************)
\* no export has run, nothing has been copied, no other script is on the page
NothingElse ==
    /\ pendingCopy = <<>>
    /\ listingShown = <<>>
    /\ uncaught = "none"
    /\ clipboardText = <<>>
    /\ readyState = "loading"
    /\ cards = <<>>
    /\ chips = <<>>
    /\ mountListeners = 0
    /\ supportNotes = 0

\* the DOMContentLoaded callback: window.sndCustomizer = new SeniorNewsCustomizer()
Boot ==
    /\ phase = "loading"
    /\ LET b == Bootstrap(store)
       IN  /\ phase' = b.phase
           /\ customFeeds' = b.feeds
           /\ deletedArticles' = b.deleted
           /\ customCount' = b.customCount
           /\ deletedCount' = b.deletedCount
           /\ activeBadge' = b.activeBadge
           /\ items' = b.items
    /\ UNCHANGED <<store, page, clock, alertMsg, manageOpen, feedsList, other,
                   session, outside>>

\* leaving the page: the document and the controller are gone, the Store stays
Unload ==
    /\ phase' = "loading"
    /\ customFeeds' = <<>>
    /\ deletedArticles' = <<>>
    /\ customCount' = ""
    /\ deletedCount' = ""
    /\ activeBadge' = ""
    /\ items' = PristineItems
    /\ alertMsg' = "none"
    /\ manageOpen' = FALSE
    /\ feedsList' = BlankList
    /\ pendingCopy' = <<>>
    /\ listingShown' = <<>>
    /\ uncaught' = "none"

\* the user reloads the page
Reload ==
    /\ phase \in {"ready", "crashed"}
    /\ Unload
    /\ UNCHANGED <<store, page, clock, other, outside>>

\* time passes
Tick ==
    /\ clock < MaxClock
    /\ clock' = clock + 1
    /\ UNCHANGED <<store, phase, customFeeds, deletedArticles, customCount,
                   deletedCount, activeBadge, page, items, alertMsg, manageOpen,
                   feedsList, other,
                   session, outside>>

\* the validation that looks at the name field only
addFeedRejectionNameOnly(name, url) ==
    IF name = <<>> THEN "Please fill in all required fields."
    ELSE "none"

\* the validation without the try { new URL(url) } step
addFeedRejectionNoParse(name, url) ==
    IF name = <<>> \/ url = <<>> THEN "Please fill in all required fields."
    ELSE "none"

\* the validation of handleAddFeed: the message of the alert it ends with,
\* "none" when the fields pass
addFeedRejection(name, url) ==
    IF name = <<>> \/ url = <<>> THEN "Please fill in all required fields."
    ELSE IF NewURLThrows(url) THEN "Please enter a valid URL."
    ELSE "none"

\* submit of #snd-add-feed-form
handleAddFeed(nameIn, urlIn, categoryIn) ==
    /\ phase = "ready"
    /\ LET name == Trim(nameIn)
           url == Trim(urlIn)
           category == Trim(categoryIn)
           rejection == addFeedRejection(name, url)
       IN  IF rejection # "none"
           THEN /\ alertMsg' = rejection
                /\ UNCHANGED <<store, customFeeds, customCount, deletedCount>>
           ELSE /\ Len(customFeeds) < MaxFeeds
                /\ LET r == addCustomFeed(customFeeds,
                                [name |-> name, url |-> url, category |-> category],
                                clock)
                   IN  /\ customFeeds' = r.feeds
                       /\ store' = saveCustomFeeds(store, r.feeds)
                       /\ updateStats(r.feeds, deletedArticles)
                /\ alertMsg' = "Successfully added"
    /\ UNCHANGED <<phase, deletedArticles, activeBadge, page, items, clock,
                   manageOpen, feedsList, other,
                   session, outside>>

\* the Remove button removing without looking at the answer to confirm()
removeFeedUIUnasked(feedId, confirmed) ==
    /\ phase = "ready"
    /\ LET feeds == removeCustomFeed(customFeeds, feedId)
       IN  /\ customFeeds' = feeds
           /\ store' = saveCustomFeeds(store, feeds)
           /\ updateStats(feeds, deletedArticles)
           /\ openManageFeedsModal(feeds)
    /\ alertMsg' = "none"
    /\ UNCHANGED <<phase, deletedArticles, activeBadge, page, items, clock, other,
                   session, outside>>

\* the Remove button of the management list
removeFeedUI(feedId, confirmed) ==
    /\ phase = "ready"
    /\ IF confirmed
       THEN LET feeds == removeCustomFeed(customFeeds, feedId)
            IN  /\ customFeeds' = feeds
                /\ store' = saveCustomFeeds(store, feeds)
                /\ updateStats(feeds, deletedArticles)
                /\ openManageFeedsModal(feeds)
       ELSE UNCHANGED <<store, customFeeds, customCount, deletedCount, manageOpen,
                        feedsList>>
    /\ alertMsg' = "none"
    /\ UNCHANGED <<phase, deletedArticles, activeBadge, page, items, clock, other,
                   session, outside>>

\* sndCustomizer.toggleCustomFeed(feedId): no control of the page calls it
ToggleFeed(feedId) ==
    /\ phase = "ready"
    /\ LET r == toggleCustomFeed(customFeeds, feedId)
       IN  IF r.save
           THEN /\ customFeeds' = r.feeds
                /\ store' = saveCustomFeeds(store, r.feeds)
                /\ updateStats(r.feeds, deletedArticles)
           ELSE UNCHANGED <<store, customFeeds, customCount, deletedCount>>
    /\ alertMsg' = "none"
    /\ UNCHANGED <<phase, deletedArticles, activeBadge, page, items, clock,
                   manageOpen, feedsList, other,
                   session, outside>>

\* the Remove button of a list item
deleteArticleUI(articleUrl) ==
    /\ phase = "ready"
    /\ \E li \in ListItems : items[li].ctl = Control("remove", articleUrl)
    /\ LET r == deleteArticle(deletedArticles, articleUrl)
       IN  IF r.save
           THEN /\ deletedArticles' = r.deleted
                /\ store' = saveDeletedArticles(store, r.deleted)
                /\ updateStats(customFeeds, r.deleted)
           ELSE UNCHANGED <<store, deletedArticles, customCount, deletedCount>>
    /\ items' = markItems(items, articleUrl)
    /\ alertMsg' = "none"
    /\ UNCHANGED <<phase, customFeeds, activeBadge, page, clock, manageOpen,
                   feedsList, other,
                   session, outside>>

\* the Restore button of a list item or of the deleted-articles list
restoreArticleUI(articleUrl) ==
    /\ phase = "ready"
    /\ \/ \E li \in ListItems : items[li].ctl = Control("restore", articleUrl)
       \/ isArticleDeleted(deletedArticles, articleUrl)
    /\ LET deleted == restoreArticle(deletedArticles, articleUrl)
       IN  /\ deletedArticles' = deleted
           /\ store' = saveDeletedArticles(store, deleted)
           /\ updateStats(customFeeds, deleted)
    /\ items' = unmarkItems(items, articleUrl)
    /\ alertMsg' = "none"
    /\ UNCHANGED <<phase, customFeeds, activeBadge, page, clock, manageOpen,
                   feedsList, other,
                   session, outside>>

\* the Clear All button of the deleted-articles list; location.reload() starts
\* the navigation, which unloads the document once the handler has returned
clearAllDeleted(confirmed) ==
    /\ phase = "ready"
    /\ IF confirmed
       THEN /\ deletedArticles' = <<>>
            /\ store' = saveDeletedArticles(store, <<>>)
            /\ updateStats(customFeeds, <<>>)
            /\ phase' = "reloading"
       ELSE UNCHANGED <<store, phase, deletedArticles, customCount, deletedCount>>
    /\ alertMsg' = "none"
    /\ UNCHANGED <<customFeeds, activeBadge, page, items, clock, manageOpen,
                   feedsList, other,
                   session, outside>>

\* the navigation that location.reload() started
Navigate ==
    /\ phase = "reloading"
    /\ Unload
    /\ UNCHANGED <<store, page, clock, other, outside>>

\* the Manage Sources button of the control bar
ManageSources ==
    /\ phase = "ready"
    /\ openManageFeedsModal(customFeeds)
    /\ alertMsg' = "none"
    /\ UNCHANGED <<store, phase, customFeeds, deletedArticles, customCount,
                   deletedCount, activeBadge, page, items, clock, other,
                   session, outside>>

\* the Close button, the x and the backdrop of the management modal
closeModal ==
    /\ phase = "ready"
    /\ manageOpen
    /\ manageOpen' = FALSE
    /\ alertMsg' = "none"
    /\ UNCHANGED <<store, phase, customFeeds, deletedArticles, customCount,
                   deletedCount, activeBadge, page, items, clock, feedsList, other,
                   session, outside>>

Next ==
    \/ Boot
    \/ Reload
    \/ Tick
    \/ \E n \in NameInputs, u \in UrlInputs, c \in CategoryInputs : handleAddFeed(n, u, c)
    \/ \E id \in FeedIds, ok \in BOOLEAN : removeFeedUI(id, ok)
    \/ \E id \in FeedIds : ToggleFeed(id)
    \/ \E u \in ArticleUrls : deleteArticleUI(u)
    \/ \E u \in ArticleUrls : restoreArticleUI(u)
    \/ \E ok \in BOOLEAN : clearAllDeleted(ok)
    \/ Navigate

\* a first visit: nothing stored yet, the page is loading
Init ==
    /\ store = [feeds |-> Missing, deleted |-> Missing]
    /\ phase = "loading"
    /\ customFeeds = <<>>
    /\ deletedArticles = <<>>
    /\ customCount = ""
    /\ deletedCount = ""
    /\ activeBadge = ""
    /\ page = FrontPage
    /\ items = PristineItems
    /\ clock = 1
    /\ alertMsg = "none"
    /\ manageOpen = FALSE
    /\ feedsList = BlankList
    /\ other = NoOther
    /\ NothingElse

Spec == Init /\ [][Next]_vars

(***************************************************************************)
(* The same session with the management modal in use.                      *)
(***************************************************************************)
NextManage ==
    \/ Next
    \/ ManageSources
    \/ closeModal

SpecManage == Init /\ [][NextManage]_vars

(***************************************************************************)
(* The same session with the decoration routine run again on the loaded    *)
(* page.                                                                   *)
(***************************************************************************)
\* sndCustomizer.addDeleteButtonsToArticles(): init() calls it once, nothing
\* else of the page does
Redecorate ==
    /\ phase = "ready"
    /\ items' = addDeleteButtonsToArticles(items, StringifyUrls(deletedArticles))
    /\ alertMsg' = "none"
    /\ UNCHANGED <<store, phase, customFeeds, deletedArticles, customCount,
                   deletedCount, activeBadge, page, clock, manageOpen, feedsList, other,
                   session, outside>>

NextDecorate ==
    \/ Next
    \/ Redecorate

SpecDecorate == Init /\ [][NextDecorate]_vars

(***************************************************************************)
(* A page whose first list item links two articles, the second of which    *)
(* has a list item of its own.                                             *)
(***************************************************************************)
DigestPage == << <<LinkA, LinkB>>, <<LinkB>> >>

InitDigest ==
    /\ store = [feeds |-> Missing, deleted |-> Missing]
    /\ phase = "loading"
    /\ customFeeds = <<>>
    /\ deletedArticles = <<>>
    /\ customCount = ""
    /\ deletedCount = ""
    /\ activeBadge = ""
    /\ page = DigestPage
    /\ items = PristineItems
    /\ clock = 1
    /\ alertMsg = "none"
    /\ manageOpen = FALSE
    /\ feedsList = BlankList
    /\ other = NoOther
    /\ NothingElse

SpecDigest == InitDigest /\ [][Next]_vars

(***************************************************************************)
(* The export of the feed collection for feeds.yaml.  A text is a sequence  *)
(* of tokens, "\n" being the line break.                                    *)
(***************************************************************************)
ExportHeader == <<"# Custom feeds added by user">>

\* the line of one feed, without its category
ExportLineNoCategory(feed) ==
    <<"  - ">> \o feed.url \o <<"  # ">> \o feed.name \o <<" (">> \o <<")">>

\* `  - ${feed.url}  # ${feed.name} (${feed.category})`
ExportLine(feed) ==
    <<"  - ">> \o feed.url \o <<"  # ">> \o feed.name \o <<" (">> \o feed.category
        \o <<")">>

\* yamlLines.join('\n')
RECURSIVE JoinLines(_)
JoinLines(lines) ==
    IF lines = <<>> THEN <<>>
    ELSE IF Len(lines) = 1 THEN lines[1]
    ELSE lines[1] \o <<"\n">> \o JoinLines(Tail(lines))

\* yamlContent
YamlContent(feeds) ==
    JoinLines(<<ExportHeader>> \o [i \in 1..Len(feeds) |-> ExportLine(feeds[i])])

\* navigator.clipboard: undefined (insecure context, old browser) or there
ClipboardAccess == {"absent", "present"}

\* the export that empties the collection it has listed
exportDraining(access) ==
    /\ phase = "ready"
    /\ Len(customFeeds) > 0
    /\ access = "present"
    /\ Len(pendingCopy) < MaxPending
    /\ pendingCopy' = Append(pendingCopy, YamlContent(customFeeds))
    /\ customFeeds' = <<>>
    /\ alertMsg' = "none"
    /\ UNCHANGED <<store, phase, deletedArticles, customCount, deletedCount,
                   activeBadge, page, items, clock, manageOpen, feedsList, other,
                   listingShown, uncaught, outside>>

\* sndCustomizer.exportCustomFeedsForYAML(): no control of the page calls it
exportCustomFeedsForYAML(access) ==
    /\ phase = "ready"
    /\ IF Len(customFeeds) = 0
       THEN /\ alertMsg' = "No custom feeds to export."
            /\ UNCHANGED <<pendingCopy, uncaught>>
       ELSE IF access = "absent"
       THEN \* navigator.clipboard.writeText: cannot read properties of undefined
            /\ uncaught' = "TypeError"
            /\ alertMsg' = "none"
            /\ UNCHANGED pendingCopy
       ELSE /\ Len(pendingCopy) < MaxPending
            /\ pendingCopy' = Append(pendingCopy, YamlContent(customFeeds))
            /\ alertMsg' = "none"
            /\ UNCHANGED uncaught
    /\ UNCHANGED <<store, phase, customFeeds, deletedArticles, customCount,
                   deletedCount, activeBadge, page, items, clock, manageOpen,
                   feedsList, other, listingShown, outside>>

\* the promise of writeText settles: .then(...) or .catch(...) runs
ClipboardSettles(fulfilled) ==
    /\ pendingCopy # <<>>
    /\ IF fulfilled
       THEN /\ clipboardText' = Head(pendingCopy)
            /\ alertMsg' = "Custom feeds copied to clipboard!"
            /\ UNCHANGED listingShown
       ELSE /\ listingShown' = Head(pendingCopy)
            /\ alertMsg' = "Custom feeds:"
            /\ UNCHANGED clipboardText
    /\ pendingCopy' = Tail(pendingCopy)
    /\ UNCHANGED <<store, phase, customFeeds, deletedArticles, customCount,
                   deletedCount, activeBadge, page, items, clock, manageOpen,
                   feedsList, other, uncaught, scripts>>

\* what the user submits in the sessions that export
ExportNameInputs == {<<"A">>}
ExportUrlInputs == {<<"https:", "//f.example/rss">>}
ExportCategoryInputs == {<<>>, <<"Lifestyle">>}

NextExport ==
    \/ Boot
    \/ Reload
    \/ \E n \in ExportNameInputs, u \in ExportUrlInputs, c \in ExportCategoryInputs :
            handleAddFeed(n, u, c)
    \/ \E id \in FeedIds : ToggleFeed(id)
    \/ \E access \in ClipboardAccess : exportCustomFeedsForYAML(access)
    \/ \E fulfilled \in BOOLEAN : ClipboardSettles(fulfilled)

SpecExport == Init /\ [][NextExport]_vars

(***************************************************************************)
(* A Store that rejects writes: localStorage.setItem throws when the quota *)
(* is used up or storage is blocked.  saveCustomFeeds and                  *)
(* saveDeletedArticles call it with no try/catch, so the exception leaves  *)
(* the save routine before updateStats, then the registry operation, then  *)
(* the handler, whose remaining statements do not run.                     *)
(***************************************************************************)
\* what the user submits in the sessions with a full Store
QuotaNameInputs == {<<"A">>}
QuotaUrlInputs == {<<"https:", "//f.example/rss">>}
QuotaCategoryInputs == {<<"Lifestyle">>}

\* handleAddFeed: addCustomFeed has pushed the entry when the save throws;
\* the success alert, closeModal, reset and updateStats are not reached
handleAddFeedRejected(nameIn, urlIn, categoryIn) ==
    /\ phase = "ready"
    /\ LET name == Trim(nameIn)
           url == Trim(urlIn)
           category == Trim(categoryIn)
       IN  /\ addFeedRejection(name, url) = "none"
           /\ Len(customFeeds) < MaxFeeds
           /\ customFeeds' = addCustomFeed(customFeeds,
                                [name |-> name, url |-> url, category |-> category],
                                clock).feeds
    /\ uncaught' = "QuotaExceededError"
    /\ alertMsg' = "none"
    /\ UNCHANGED <<store, phase, deletedArticles, customCount, deletedCount,
                   activeBadge, page, items, clock, manageOpen, feedsList, other,
                   pendingCopy, listingShown, outside>>

\* removeFeedUI, confirmed: removeCustomFeed has assigned the filtered array
\* when the save throws; openManageFeedsModal is not reached
removeFeedUIRejected(feedId) ==
    /\ phase = "ready"
    /\ customFeeds' = removeCustomFeed(customFeeds, feedId)
    /\ uncaught' = "QuotaExceededError"
    /\ alertMsg' = "none"
    /\ UNCHANGED <<store, phase, deletedArticles, customCount, deletedCount,
                   activeBadge, page, items, clock, manageOpen, feedsList, other,
                   pendingCopy, listingShown, outside>>

\* toggleCustomFeed: the flag is flipped when the save throws
ToggleFeedRejected(feedId) ==
    /\ phase = "ready"
    /\ LET r == toggleCustomFeed(customFeeds, feedId)
       IN  /\ r.save
           /\ customFeeds' = r.feeds
    /\ uncaught' = "QuotaExceededError"
    /\ alertMsg' = "none"
    /\ UNCHANGED <<store, phase, deletedArticles, customCount, deletedCount,
                   activeBadge, page, items, clock, manageOpen, feedsList, other,
                   pendingCopy, listingShown, outside>>

\* deleteArticleUI: deleteArticle has pushed the url when the save throws;
\* the list items are not restyled
deleteArticleUIRejected(articleUrl) ==
    /\ phase = "ready"
    /\ \E li \in ListItems : items[li].ctl = Control("remove", articleUrl)
    /\ LET r == deleteArticle(deletedArticles, articleUrl)
       IN  /\ r.save
           /\ deletedArticles' = r.deleted
    /\ uncaught' = "QuotaExceededError"
    /\ alertMsg' = "none"
    /\ UNCHANGED <<store, phase, customFeeds, customCount, deletedCount,
                   activeBadge, page, items, clock, manageOpen, feedsList, other,
                   pendingCopy, listingShown, outside>>

\* restoreArticleUI: restoreArticle has assigned the filtered array when the
\* save throws; the list items are not restyled
restoreArticleUIRejected(articleUrl) ==
    /\ phase = "ready"
    /\ \/ \E li \in ListItems : items[li].ctl = Control("restore", articleUrl)
       \/ isArticleDeleted(deletedArticles, articleUrl)
    /\ deletedArticles' = restoreArticle(deletedArticles, articleUrl)
    /\ uncaught' = "QuotaExceededError"
    /\ alertMsg' = "none"
    /\ UNCHANGED <<store, phase, customFeeds, customCount, deletedCount,
                   activeBadge, page, items, clock, manageOpen, feedsList, other,
                   pendingCopy, listingShown, outside>>

\* clearAllDeleted, confirmed: the array is emptied when the save throws;
\* location.reload() is not reached
clearAllDeletedRejected ==
    /\ phase = "ready"
    /\ deletedArticles' = <<>>
    /\ uncaught' = "QuotaExceededError"
    /\ alertMsg' = "none"
    /\ UNCHANGED <<store, phase, customFeeds, customCount, deletedCount,
                   activeBadge, page, items, clock, manageOpen, feedsList, other,
                   pendingCopy, listingShown, outside>>

\* a mutating operation during which the Store rejects the write
StoreRejectsWrite ==
    \/ \E n \in QuotaNameInputs, u \in QuotaUrlInputs, c \in QuotaCategoryInputs :
            handleAddFeedRejected(n, u, c)
    \/ \E id \in FeedIds : removeFeedUIRejected(id)
    \/ \E id \in FeedIds : ToggleFeedRejected(id)
    \/ \E u \in ArticleUrls : deleteArticleUIRejected(u)
    \/ \E u \in ArticleUrls : restoreArticleUIRejected(u)
    \/ clearAllDeletedRejected

NextQuota ==
    \/ Boot
    \/ Reload
    \/ \E n \in QuotaNameInputs, u \in QuotaUrlInputs, c \in QuotaCategoryInputs :
            handleAddFeed(n, u, c)
    \/ \E id \in FeedIds, ok \in BOOLEAN : removeFeedUI(id, ok)
    \/ \E u \in ArticleUrls : deleteArticleUI(u)
    \/ \E u \in ArticleUrls : restoreArticleUI(u)
    \/ \E ok \in BOOLEAN : clearAllDeleted(ok)
    \/ Navigate
    \/ StoreRejectsWrite

SpecQuota == InitDigest /\ [][NextQuota]_vars

(***************************************************************************)
(* The page with the category chips (assets/app.js) and the support note   *)
(* (assets/thanks.js).  Both scripts hang their work on DOMContentLoaded.  *)
(***************************************************************************)
MaxCards == 2
MaxListeners == 2

\* data-category as written in the page; <<>> is the attribute left out or
\* empty, which `|| 'General'` replaces
CategoryAttrs == {<<>>, <<"Health">>, <<WS, "Health">>, <<WS>>, <<"ALL">>}

\* (c.getAttribute('data-category') || 'General').trim()
CardCategory(card) == Trim(IF card.attr = <<>> THEN General ELSE card.attr)

\* getCards: the categories of the cards in document order
getCards(cs) == [i \in 1..Len(cs) |-> CardCategory(cs[i])]

\* the keys of the Map in insertion order: each category where it first occurs
RECURSIVE MapKeys(_)
MapKeys(cats) ==
    IF cats = <<>> THEN <<>>
    ELSE LET front == MapKeys(SubSeq(cats, 1, Len(cats) - 1))
             k == cats[Len(cats)]
         IN  IF \E i \in 1..Len(front) : front[i] = k THEN front
             ELSE Append(front, k)

\* the place Array.prototype.sort((a,b) => b[1]-a[1]), which is stable, gives
\* an entry among the entries sorted before it
RECURSIVE InsertDesc(_, _)
InsertDesc(sorted, entry) ==
    IF sorted = <<>> THEN <<entry>>
    ELSE IF sorted[Len(sorted)][2] >= entry[2] THEN Append(sorted, entry)
    ELSE Append(InsertDesc(SubSeq(sorted, 1, Len(sorted) - 1), entry),
                sorted[Len(sorted)])

RECURSIVE SortDesc(_)
SortDesc(entries) ==
    IF entries = <<>> THEN <<>>
    ELSE InsertDesc(SortDesc(SubSeq(entries, 1, Len(entries) - 1)),
                    entries[Len(entries)])

\* countsByCategory: the pairs <<category, count>>, larger counts first
countsByCategory(cats) ==
    LET keys == MapKeys(cats)
    IN  SortDesc([i \in 1..Len(keys) |->
                    <<keys[i], Cardinality({c \in 1..Len(cats) : cats[c] = keys[i]})>>])

\* counts.reduce((s, [,n]) => s+n, 0)
RECURSIVE Total(_)
Total(counts) ==
    IF counts = <<>> THEN 0
    ELSE Total(SubSeq(counts, 1, Len(counts) - 1)) + counts[Len(counts)][2]

AllKey == <<"ALL">>

\* mk(label, count, key) inside renderChips
mk(label, count, key, total) ==
    [key |-> key,
     text |-> IF key = AllKey THEN [label |-> <<"All">>, count |-> total]
              ELSE [label |-> label, count |-> count],
     active |-> FALSE]

\* renderChips: the All chip, one chip per category, the first chip active
renderChips(counts) ==
    LET total == Total(counts)
        row == <<mk(<<"All">>, total, AllKey, total)>>
                \o [i \in 1..Len(counts) |->
                        mk(counts[i][1], counts[i][2], counts[i][1], total)]
    IN  [row EXCEPT ![1].active = TRUE]

\* the argument the click handler passes: key==='ALL' ? null : key
FilterArgument(key) ==
    IF key = AllKey THEN [null |-> TRUE, s |-> <<>>] ELSE [null |-> FALSE, s |-> key]

\* applyFilter: show = !category || c.category === category; the empty
\* string is falsy
applyFilter(cs, category) ==
    [i \in 1..Len(cs) |->
        [cs[i] EXCEPT !.shown = \/ category.null
                                \/ category.s = <<>>
                                \/ CardCategory(cs[i]) = category.s]]

\* the pages served: up to MaxCards cards, all displayed
CardPages ==
    UNION {[1..n -> [attr : CategoryAttrs, shown : {TRUE}]] : n \in 0..MaxCards}

\* the customizer is not part of this page
NoCustomizer ==
    /\ store = [feeds |-> Missing, deleted |-> Missing]
    /\ phase = "loading"
    /\ customFeeds = <<>>
    /\ deletedArticles = <<>>
    /\ customCount = ""
    /\ deletedCount = ""
    /\ activeBadge = ""
    /\ page = FrontPage
    /\ items = PristineItems
    /\ clock = 1
    /\ alertMsg = "none"
    /\ manageOpen = FALSE
    /\ feedsList = BlankList
    /\ other = NoOther
    /\ pendingCopy = <<>>
    /\ listingShown = <<>>
    /\ uncaught = "none"
    /\ clipboardText = <<>>

customizer ==
    <<store, phase, customFeeds, deletedArticles, customCount, deletedCount,
      activeBadge, page, items, clock, alertMsg, manageOpen, feedsList, other,
      session, clipboardText>>

\* one execution of thanks.js: the guard, then mount now or on DOMContentLoaded
ThanksScriptRuns ==
    /\ IF supportNotes > 0
       THEN UNCHANGED <<mountListeners, supportNotes>>
       ELSE IF readyState = "loading"
       THEN /\ mountListeners < MaxListeners
            /\ mountListeners' = mountListeners + 1
            /\ UNCHANGED supportNotes
       ELSE /\ supportNotes' = supportNotes + 1
            /\ UNCHANGED mountListeners
    /\ UNCHANGED <<customizer, readyState, cards, chips>>

\* the document has been parsed: init of app.js runs, then every mount
\* registered by thanks.js
DOMContentLoaded ==
    /\ readyState = "loading"
    /\ readyState' = "interactive"
    /\ chips' = renderChips(countsByCategory(getCards(cards)))
    /\ supportNotes' = supportNotes + mountListeners
    /\ UNCHANGED <<customizer, cards, mountListeners>>

\* b.onclick of the i-th chip
ChipClick(i) ==
    /\ i \in 1..Len(chips)
    /\ chips' = [j \in 1..Len(chips) |-> [chips[j] EXCEPT !.active = (j = i)]]
    /\ cards' = applyFilter(cards, FilterArgument(chips[i].key))
    /\ UNCHANGED <<customizer, readyState, mountListeners, supportNotes>>

InitPage ==
    /\ NoCustomizer
    /\ readyState = "loading"
    /\ cards \in CardPages
    /\ chips = <<>>
    /\ mountListeners = 0
    /\ supportNotes = 0

NextPage ==
    \/ ThanksScriptRuns
    \/ DOMContentLoaded
    \/ \E i \in 1..(MaxCards + 1) : ChipClick(i)

SpecPage == InitPage /\ [][NextPage]_vars

(***************************************************************************)
(* A second tab on the same origin: another SeniorNewsCustomizer with its   *)
(* own two collections, reading and writing the same two records.  Its      *)
(* document is not part of the state.                                      *)
(***************************************************************************)
\* what the user of the second tab submits in its add-feed form
OtherFeedData ==
    [name |-> <<"B">>, url |-> <<"https:", "//f.example/rss">>, category |-> <<>>]

\* the URLs a control of the page passes: the first outbound link of a list item
ControlUrls == {page[li][FirstOutbound(li)].href : li \in {i \in ListItems : FirstOutbound(i) # 0}}

\* the second tab is opened, or reloaded
OtherBoot ==
    /\ LET b == Bootstrap(store)
       IN  other' = [phase |-> b.phase, feeds |-> b.feeds, deleted |-> b.deleted]
    /\ UNCHANGED <<store, phase, customFeeds, deletedArticles, customCount,
                   deletedCount, activeBadge, page, items, clock, alertMsg,
                   manageOpen, feedsList,
                   session, outside>>

\* handleAddFeed in the second tab, with fields that pass the validation
OtherAddFeed ==
    /\ other.phase = "ready"
    /\ Len(other.feeds) < MaxFeeds
    /\ addFeedRejection(OtherFeedData.name, OtherFeedData.url) = "none"
    /\ LET r == addCustomFeed(other.feeds, OtherFeedData, clock)
       IN  /\ other' = [other EXCEPT !.feeds = r.feeds]
           /\ store' = saveCustomFeeds(store, r.feeds)
    /\ UNCHANGED <<phase, customFeeds, deletedArticles, customCount, deletedCount,
                   activeBadge, page, items, clock, alertMsg, manageOpen, feedsList,
                   session, outside>>

\* removeFeedUI in the second tab, confirmed
OtherRemoveFeed(feedId) ==
    /\ other.phase = "ready"
    /\ LET feeds == removeCustomFeed(other.feeds, feedId)
       IN  /\ other' = [other EXCEPT !.feeds = feeds]
           /\ store' = saveCustomFeeds(store, feeds)
    /\ UNCHANGED <<phase, customFeeds, deletedArticles, customCount, deletedCount,
                   activeBadge, page, items, clock, alertMsg, manageOpen, feedsList,
                   session, outside>>

\* deleteArticleUI in the second tab
OtherDeleteArticle(articleUrl) ==
    /\ other.phase = "ready"
    /\ articleUrl \in ControlUrls
    /\ LET r == deleteArticle(other.deleted, articleUrl)
       IN  /\ other' = [other EXCEPT !.deleted = r.deleted]
           /\ store' = IF r.save THEN saveDeletedArticles(store, r.deleted) ELSE store
    /\ UNCHANGED <<phase, customFeeds, deletedArticles, customCount, deletedCount,
                   activeBadge, page, items, clock, alertMsg, manageOpen, feedsList,
                   session, outside>>

\* restoreArticleUI in the second tab
OtherRestoreArticle(articleUrl) ==
    /\ other.phase = "ready"
    /\ isArticleDeleted(other.deleted, articleUrl)
    /\ LET deleted == restoreArticle(other.deleted, articleUrl)
       IN  /\ other' = [other EXCEPT !.deleted = deleted]
           /\ store' = saveDeletedArticles(store, deleted)
    /\ UNCHANGED <<phase, customFeeds, deletedArticles, customCount, deletedCount,
                   activeBadge, page, items, clock, alertMsg, manageOpen, feedsList,
                   session, outside>>

\* a page with one article
TabsPage == << <<LinkA>> >>

\* what the user of this tab submits while the other tab is in use
TabsNameInputs == {<<"A">>}
TabsUrlInputs == {<<"rss">>, <<"https:", "//f.example/rss">>}
TabsCategoryInputs == {<<>>}

InitTabs ==
    /\ store = [feeds |-> Missing, deleted |-> Missing]
    /\ phase = "loading"
    /\ customFeeds = <<>>
    /\ deletedArticles = <<>>
    /\ customCount = ""
    /\ deletedCount = ""
    /\ activeBadge = ""
    /\ page = TabsPage
    /\ items = PristineItems
    /\ clock = 1
    /\ alertMsg = "none"
    /\ manageOpen = FALSE
    /\ feedsList = BlankList
    /\ other = NoOther
    /\ NothingElse

NextTabs ==
    \/ Boot
    \/ Reload
    \/ Tick
    \/ \E n \in TabsNameInputs, u \in TabsUrlInputs, c \in TabsCategoryInputs :
            handleAddFeed(n, u, c)
    \/ \E id \in FeedIds, ok \in BOOLEAN : removeFeedUI(id, ok)
    \/ \E u \in ArticleUrls : deleteArticleUI(u)
    \/ \E u \in ArticleUrls : restoreArticleUI(u)
    \/ \E ok \in BOOLEAN : clearAllDeleted(ok)
    \/ Navigate
    \/ OtherBoot
    \/ OtherAddFeed
    \/ \E id \in FeedIds : OtherRemoveFeed(id)
    \/ \E u \in ArticleUrls : OtherDeleteArticle(u)
    \/ \E u \in ArticleUrls : OtherRestoreArticle(u)

SpecTabs == InitTabs /\ [][NextTabs]_vars

(***************************************************************************)
(* A page load that finds whatever an earlier session, another script or   *)
(* the user left in the two records.                                       *)
(***************************************************************************)
EarlierFeed ==
    [id |-> 0, name |-> <<"A">>, url |-> <<"https:", "//f.example/rss">>,
     category |-> General, dateAdded |-> toISOString(0), enabled |-> FALSE]

FeedRecords ==
    {Missing, Corrupt, Text(JNull), Text(JNum(0)), Text(JObj(<<>>)), Text(JNum(7)),
     Text(JStr("abc")), Text(JArr(<<>>)), Text(StringifyFeeds(<<EarlierFeed>>))}

DeletedRecords ==
    {Missing, Corrupt, Text(JBool(FALSE)), Text(JStr("")), Text(JObj(<<>>)),
     Text(JBool(TRUE)), Text(JStr(UrlA)), Text(JArr(<<>>)), Text(StringifyUrls(<<UrlA>>))}

InitAnyStore ==
    /\ store \in [feeds : FeedRecords, deleted : DeletedRecords]
    /\ phase = "loading"
    /\ customFeeds = <<>>
    /\ deletedArticles = <<>>
    /\ customCount = ""
    /\ deletedCount = ""
    /\ activeBadge = ""
    /\ page = FrontPage
    /\ items = PristineItems
    /\ clock = 1
    /\ alertMsg = "none"
    /\ manageOpen = FALSE
    /\ feedsList = BlankList
    /\ other = NoOther
    /\ NothingElse

SpecAnyStore == InitAnyStore /\ [][Next]_vars

(***************************************************************************)
(* Properties.                                                             *)
(***************************************************************************)
AllBlank(s) == \A i \in 1..Len(s) : s[i] = WS

\* the field holds an absolute URL, possibly with white space around it
HoldsAbsoluteUrl(s) ==
    \E i \in 1..Len(s) :
        /\ \A k \in 1..(i - 1) : s[k] = WS
        /\ i < Len(s)
        /\ s[i] = "https:"
        /\ s[i + 1] = "//f.example/rss"

ValidSubmission(n, u) == ~AllBlank(n) /\ ~AllBlank(u) /\ HoldsAbsoluteUrl(u)

\* the field's text without the white space around it
Stripped(s) == SelectSeq(s, LAMBDA c : c # WS)

\* C1: whenever a handler has returned (the controller is idle, or the
\* reload that clearAll asked for is about to happen), each Store record reads
\* back (load) as the in-memory collection, element for element, and a
\* controller constructed right then holds the same two collections.
C1_SaveRoundTrips ==
    phase \in {"ready", "reloading"} =>
        /\ FeedsOfArray(loadCustomFeeds(store)) = customFeeds
        /\ UrlsOfArray(loadDeletedArticles(store)) = deletedArticles
        /\ LET b == Bootstrap(store)
           IN  /\ b.phase = "ready"
               /\ b.feeds = customFeeds
               /\ b.deleted = deletedArticles

\* two feeds, one toggled off, and two deleted articles have been saved
C1_Witness ==
    /\ phase = "ready"
    /\ Len(customFeeds) = 2
    /\ ~customFeeds[1].enabled
    /\ customFeeds[2].enabled
    /\ Len(deletedArticles) = 2
    /\ store.feeds.k = "json"
    /\ store.deleted.k = "json"

\* C2: an accepted add appends exactly one entry, last, with the given name
\* and url, the given category or "General" when none was given, enabled;
\* that entry is the one addCustomFeed returns; the entries already there,
\* same name and url or not, are untouched.
C2_AddAppends ==
    [][\A n \in NameInputs, u \in UrlInputs, c \in CategoryInputs :
        (ValidSubmission(n, u) /\ handleAddFeed(n, u, c)) =>
            LET last == customFeeds'[Len(customFeeds')]
                ret == addCustomFeed(customFeeds,
                           [name |-> Trim(n), url |-> Trim(u), category |-> Trim(c)],
                           clock).ret
            IN  /\ Len(customFeeds') = Len(customFeeds) + 1
                /\ \A i \in 1..Len(customFeeds) : customFeeds'[i] = customFeeds[i]
                /\ last.name = Stripped(n)
                /\ last.url = Stripped(u)
                /\ last.category = (IF AllBlank(c) THEN <<"General">> ELSE Stripped(c))
                /\ last.enabled
                /\ ret = last
      ]_vars

\* a second entry with the name and url of the first, one with the default
\* category and one with a given one
C2_Witness ==
    /\ phase = "ready"
    /\ Len(customFeeds) = 2
    /\ customFeeds[1].name = customFeeds[2].name
    /\ customFeeds[1].url = customFeeds[2].url
    /\ customFeeds[1].category = <<"General">>
    /\ customFeeds[2].category = <<"Lifestyle">>
    /\ alertMsg = "Successfully added"

\* C3: no two entries of the feed collection have the same id.
C3_UniqueIds ==
    \A i, k \in 1..Len(customFeeds) : i # k => customFeeds[i].id # customFeeds[k].id

\* C4: a submission whose name or URL is blank, or whose URL is no absolute
\* URL, ends with one of the two messages and leaves the feed collection,
\* the Store and the counters as they were.
C4_RejectedSubmissionChangesNothing ==
    [][\A n \in NameInputs, u \in UrlInputs, c \in CategoryInputs :
        (~ValidSubmission(n, u) /\ handleAddFeed(n, u, c)) =>
            /\ alertMsg' \in {"Please fill in all required fields.",
                              "Please enter a valid URL."}
            /\ UNCHANGED <<customFeeds, deletedArticles, store, customCount,
                           deletedCount, activeBadge>>
      ]_vars

\* a rejected submission with a feed already stored
C4_Witness ==
    /\ phase = "ready"
    /\ alertMsg = "Please enter a valid URL."
    /\ Len(customFeeds) = 1
    /\ customCount = "1"

Unreadable(rec) == rec.k \in {"missing", "corrupt"}

\* well-formed text whose value is not a sequence
WrongShape(rec) == rec.k = "json" /\ rec.j.t # "arr"

\* C5: a record that is missing or cannot be parsed loads as the empty
\* collection, and that load never stops the bootstrap: a bootstrap fails
\* only where a record holds a value of the wrong shape (the case of C6).
C5_UnreadableLoadsEmpty ==
    /\ Unreadable(store.feeds) =>
        /\ loadCustomFeeds(store) = JArr(<<>>)
        /\ phase = "ready" => customFeeds = <<>>
        /\ ~WrongShape(store.deleted) =>
            (Bootstrap(store).phase = "ready" /\ Bootstrap(store).feeds = <<>>)
    /\ Unreadable(store.deleted) =>
        /\ loadDeletedArticles(store) = JArr(<<>>)
        /\ phase = "ready" => deletedArticles = <<>>
        /\ ~WrongShape(store.feeds) =>
            (Bootstrap(store).phase = "ready" /\ Bootstrap(store).deleted = <<>>)
    /\ phase = "crashed" => (WrongShape(store.feeds) \/ WrongShape(store.deleted))

\* the bootstrap has completed on unparseable feed text and no deletion record
C5_Witness ==
    /\ phase = "ready"
    /\ store.feeds = Corrupt
    /\ store.deleted = Missing
    /\ customFeeds = <<>>
    /\ customCount = "0"

\* C6: a record of the wrong shape is read as the empty collection and the
\* bootstrap completes.
C6_WrongShapeLoadsEmpty ==
    /\ phase # "crashed"
    /\ (phase = "ready" /\ WrongShape(store.feeds)) => customFeeds = <<>>
    /\ (phase = "ready" /\ WrongShape(store.deleted)) => deletedArticles = <<>>

\* C7: markDeleted(u) makes isDeleted(u) true, restore(u) makes it false,
\* neither changes isDeleted(v) for another URL v, and restore(u) of a URL
\* that is not in the collection leaves the collection as it was.
C7_MarkAndRestore ==
    [][\A u \in ArticleUrls :
        /\ deleteArticleUI(u) =>
            /\ isArticleDeleted(deletedArticles', u)
            /\ \A v \in ArticleUrls \ {u} :
                isArticleDeleted(deletedArticles', v) = isArticleDeleted(deletedArticles, v)
        /\ restoreArticleUI(u) =>
            /\ ~isArticleDeleted(deletedArticles', u)
            /\ \A v \in ArticleUrls \ {u} :
                isArticleDeleted(deletedArticles', v) = isArticleDeleted(deletedArticles, v)
            /\ ~isArticleDeleted(deletedArticles, u) => deletedArticles' = deletedArticles
      ]_vars

\* the third list item still offers Restore for a URL that has been restored
\* (its href attribute is not the resolved URL), with another URL deleted
C7_Witness ==
    /\ phase = "ready"
    /\ items[3].ctl = Control("restore", UrlC)
    /\ ~isArticleDeleted(deletedArticles, UrlC)
    /\ isArticleDeleted(deletedArticles, UrlA)

NoDuplicates(seq) == \A i, k \in 1..Len(seq) : i # k => seq[i] # seq[k]

\* C8: the deletion collection never holds a URL twice, after a reload
\* included, and markDeleted(u) of a URL already in it changes neither the
\* collection nor the Store.
C8_NoDuplicateDeletions ==
    [][/\ NoDuplicates(deletedArticles')
       /\ \A u \in ArticleUrls :
            (isArticleDeleted(deletedArticles, u) /\ deleteArticleUI(u)) =>
                UNCHANGED <<deletedArticles, store>>
      ]_vars

\* the third list item still offers Remove for a URL that is deleted (its
\* href attribute is not the resolved URL), so markDeleted can be asked again
C8_Witness ==
    /\ phase = "ready"
    /\ isArticleDeleted(deletedArticles, UrlC)
    /\ items[3].ctl = Control("remove", UrlC)
    /\ Len(deletedArticles) = 2

\* C9: for a URL u not in the collection, markDeleted(u) and then restore(u)
\* give back the collection in memory, and the Store reads back (load) as it
\* did before the two.
C9_DeleteThenRestore ==
    phase = "ready" =>
        \A u \in ArticleUrls :
            ~isArticleDeleted(deletedArticles, u) =>
                LET d == deleteArticle(deletedArticles, u)
                    st1 == IF d.save THEN saveDeletedArticles(store, d.deleted) ELSE store
                    restored == restoreArticle(d.deleted, u)
                    st2 == saveDeletedArticles(st1, restored)
                IN  /\ isArticleDeleted(d.deleted, u)
                    /\ restored = deletedArticles
                    /\ UrlsOfArray(loadDeletedArticles(st2))
                         = UrlsOfArray(loadDeletedArticles(store))

\* nothing is hidden and the deletion record, absent at first, holds "[]"
C9_Witness ==
    /\ phase = "ready"
    /\ deletedArticles = <<>>
    /\ store.deleted = Text(JArr(<<>>))
    /\ \A li \in ListItems : ~items[li].hidden /\ items[li].ctl.kind = "remove"

\* C10: after remove(id) no entry has that id and a second remove(id)
\* changes neither the collection nor the Store; remove(id) of an id that no
\* entry has leaves the collection, in memory and as stored, as it was, and
\* the handler returns normally.
C10_RemoveIdempotent ==
    [][\A id \in FeedIds :
        removeFeedUI(id, TRUE) =>
            /\ phase' = "ready"
            /\ \A i \in 1..Len(customFeeds') : customFeeds'[i].id # id
            /\ removeCustomFeed(customFeeds', id) = customFeeds'
            /\ saveCustomFeeds(store', removeCustomFeed(customFeeds', id)) = store'
            /\ (\A i \in 1..Len(customFeeds) : customFeeds[i].id # id) =>
                /\ customFeeds' = customFeeds
                /\ FeedsOfArray(loadCustomFeeds(store'))
                     = FeedsOfArray(loadCustomFeeds(store))
      ]_vars

\* the feed this page load found has been removed: the record holds "[]"
C10_Witness ==
    /\ phase = "ready"
    /\ activeBadge = "1"
    /\ customFeeds = <<>>
    /\ store.feeds = Text(JArr(<<>>))
    /\ customCount = "0"

\* C11: toggle(id) twice gives every entry its enabled value back and leaves
\* the Store reading as before; the first toggle does flip the matching
\* entry and only that one; toggle(id) of an id that no entry has changes
\* neither the collection nor the Store.
C11_ToggleInvolution ==
    phase = "ready" =>
        \A id \in FeedIds :
            LET once == toggleCustomFeed(customFeeds, id)
                st1 == IF once.save THEN saveCustomFeeds(store, once.feeds) ELSE store
                twice == toggleCustomFeed(once.feeds, id)
                st2 == IF twice.save THEN saveCustomFeeds(st1, twice.feeds) ELSE st1
                hit == {i \in 1..Len(customFeeds) :
                            once.feeds[i].enabled # customFeeds[i].enabled}
            IN  /\ twice.feeds = customFeeds
                /\ FeedsOfArray(loadCustomFeeds(st2)) = FeedsOfArray(loadCustomFeeds(store))
                /\ Len(once.feeds) = Len(customFeeds)
                /\ IF \E i \in 1..Len(customFeeds) : customFeeds[i].id = id
                   THEN /\ Cardinality(hit) = 1
                        /\ \A i \in hit : customFeeds[i].id = id
                        /\ FeedsOfArray(loadCustomFeeds(st1)) = once.feeds
                   ELSE /\ once.feeds = customFeeds
                        /\ st1 = store

\* two entries with one id, the first of them toggled off and saved
C11_Witness ==
    /\ phase = "ready"
    /\ Len(customFeeds) = 2
    /\ customFeeds[1].id = customFeeds[2].id
    /\ ~customFeeds[1].enabled
    /\ customFeeds[2].enabled
    /\ FeedsOfArray(loadCustomFeeds(store)) = customFeeds

\* C12: a confirmed clearAll leaves the deletion collection empty and the
\* record holding the empty collection, whatever was in it (nothing
\* included), before the reload it asks for; nothing touches the Store
\* between that and the bootstrap of the reloaded page, which loads an empty
\* deletion collection and marks no list item hidden.
C12_ClearAllThenReload ==
    [][/\ clearAllDeleted(TRUE) =>
            /\ deletedArticles' = <<>>
            /\ store'.deleted = Text(JArr(<<>>))
            /\ phase' = "reloading"
       /\ phase = "reloading" =>
            /\ store' = store
            /\ phase' \in {"reloading", "loading"}
       /\ Navigate =>
            /\ phase' = "loading"
            /\ LET b == Bootstrap(store')
               IN  /\ b.phase = "ready"
                   /\ b.deleted = <<>>
                   /\ \A li \in ListItems :
                        ~b.items[li].hidden /\ b.items[li].ctl.kind # "restore"
       /\ phase = "loading" =>
            /\ store' = store
            /\ phase' # "loading" =>
                 /\ phase' = Bootstrap(store).phase
                 /\ deletedArticles' = Bootstrap(store).deleted
                 /\ items' = Bootstrap(store).items
      ]_vars

\* clearAll has emptied a collection that was not empty: the list items are
\* still marked, the reload is about to happen
C12_Witness ==
    /\ phase = "reloading"
    /\ deletedArticles = <<>>
    /\ store.deleted = Text(JArr(<<>>))
    /\ items[1].hidden
    /\ items[3].hidden

\* the list item holds a link that resolves to the URL
LinksTo(li, url) == \E n \in 1..Len(page[li]) : page[li][n].href = url

\* C13: when the bootstrap of a page load completes, every URL that the
\* deletion record holds (marked in an earlier session, not restored since)
\* is reported deleted, and every list item with a link to it carries the
\* hidden marker and offers Restore for it.
C13_DeletedStaysHiddenAfterReload ==
    [][Boot =>
        /\ phase' = "ready"
        /\ \A u \in ArticleUrls :
            Includes(loadDeletedArticles(store), u) =>
                /\ isArticleDeleted(deletedArticles', u)
                /\ \A li \in ListItems :
                    LinksTo(li, u) =>
                        /\ items'[li].hidden
                        /\ items'[li].ctl = Control("restore", u)
      ]_vars

\* C14: while the controller is idle every decorated list item carries the
\* hidden marker exactly if the URL its control acts on is in the deletion
\* collection, and offers Restore exactly if it carries the marker.
C14_ItemsConsistent ==
    phase = "ready" =>
        \A li \in ListItems :
            items[li].ctl.kind # "none" =>
                /\ items[li].hidden <=> isArticleDeleted(deletedArticles, items[li].ctl.url)
                /\ items[li].ctl.kind = "restore" <=> items[li].hidden

\* C15: while the controller is idle the custom-feed count shown is the
\* length of the feed collection and the deleted-article count shown is the
\* length of the deletion collection.
C15_CountersFollowCollections ==
    phase = "ready" =>
        /\ customCount = ToString(Len(customFeeds))
        /\ deletedCount = ToString(Len(deletedArticles))

\* one feed, toggled off; a removal has been confirmed (the management
\* modal is open); one article deleted, through a control that stays Remove
C15_Witness ==
    /\ phase = "ready"
    /\ Len(customFeeds) = 1
    /\ ~customFeeds[1].enabled
    /\ manageOpen
    /\ deletedArticles = <<UrlC>>
    /\ ~items[1].hidden
    /\ items[1].ctl = Control("remove", UrlA)
    /\ customCount = "1"
    /\ deletedCount = "1"
    /\ activeBadge = "0"

\* C16: while the controller is idle the "Custom Feeds Active" badge shows
\* the number of entries of the feed collection that are enabled.
C16_ActiveBadgeFollowsCollection ==
    phase = "ready" => activeBadge = ToString(EnabledCount(customFeeds))

\* C17: while the management modal is open and the controller is idle, the
\* list shows one row per entry of the feed collection, in collection order,
\* with that entry's name, url and category and a Remove button for its id.
C17_ManageListFollowsCollection ==
    (phase = "ready" /\ manageOpen) =>
        /\ Len(feedsList.rows) = Len(customFeeds)
        /\ \A i \in 1..Len(customFeeds) :
            /\ feedsList.rows[i].name = customFeeds[i].name
            /\ feedsList.rows[i].url = customFeeds[i].url
            /\ feedsList.rows[i].category = customFeeds[i].category
            /\ feedsList.rows[i].removes = customFeeds[i].id

\* the list item holds a link to the URL, as written or as resolved
HasLinkTo(li, url) ==
    \E n \in 1..Len(page[li]) : page[li][n].attr = url \/ page[li][n].href = url

\* C18: a delete or restore of URL u from a list item's control changes the
\* marker and the control of list items with a link to u only, and brings
\* the deleted count up to date; the feed collection, the feed record, the
\* feed count and badge and the management list stay as they were, and the
\* page is not reloaded.
C18_DeleteRestoreFrame ==
    [][\A u \in ArticleUrls :
        (deleteArticleUI(u) \/ restoreArticleUI(u)) =>
            /\ \A li \in ListItems : ~HasLinkTo(li, u) => items'[li] = items[li]
            /\ deletedCount' = ToString(Len(deletedArticles'))
            /\ store'.feeds = store.feeds
            /\ phase' = "ready"
            /\ UNCHANGED <<customFeeds, customCount, activeBadge, page, manageOpen,
                           feedsList>>
      ]_vars

\* with one feed stored, UrlA has been deleted: the two list items that link
\* to it are marked, the third is as the bootstrap left it
C18_Witness ==
    /\ phase = "ready"
    /\ deletedArticles = <<UrlA>>
    /\ items[1] = [hidden |-> TRUE, ctl |-> Control("restore", UrlA), blocks |-> 1]
    /\ items[2] = [hidden |-> TRUE, ctl |-> Control("restore", UrlA), blocks |-> 1]
    /\ items[3] = [hidden |-> FALSE, ctl |-> Control("remove", UrlC), blocks |-> 1]
    /\ deletedCount = "1"
    /\ Len(customFeeds) = 1
    /\ customCount = "1"
    /\ store.feeds = Text(StringifyFeeds(customFeeds))

\* C19: each mutating operation of this controller saves what the Store
\* held when the operation began with that operation's change applied to
\* it, whatever the other tab has written since this controller's bootstrap.
C19_ReadBeforeMutate ==
    [][LET storedFeeds == FeedsOfArray(loadCustomFeeds(store))
           storedDeleted == UrlsOfArray(loadDeletedArticles(store))
           nowFeeds == FeedsOfArray(loadCustomFeeds(store'))
           nowDeleted == UrlsOfArray(loadDeletedArticles(store'))
       IN  /\ \A n \in TabsNameInputs, u \in TabsUrlInputs, c \in TabsCategoryInputs :
                (ValidSubmission(n, u) /\ handleAddFeed(n, u, c)) =>
                    nowFeeds = addCustomFeed(storedFeeds,
                                   [name |-> Trim(n), url |-> Trim(u), category |-> Trim(c)],
                                   clock).feeds
           /\ \A id \in FeedIds :
                removeFeedUI(id, TRUE) => nowFeeds = removeCustomFeed(storedFeeds, id)
           /\ \A u \in ArticleUrls :
                /\ deleteArticleUI(u) => nowDeleted = deleteArticle(storedDeleted, u).deleted
                /\ restoreArticleUI(u) => nowDeleted = restoreArticle(storedDeleted, u)
           /\ clearAllDeleted(TRUE) => nowDeleted = <<>>
      ]_vars

\* a step in which this controller saves the feed collection
ThisSavesFeeds ==
    \/ \E n \in TabsNameInputs, u \in TabsUrlInputs, c \in TabsCategoryInputs :
            handleAddFeed(n, u, c) /\ alertMsg' = "Successfully added"
    \/ \E id \in FeedIds : removeFeedUI(id, TRUE)

\* a step in which this controller saves the deletion collection
ThisSavesDeleted ==
    \/ \E u \in ArticleUrls : deleteArticleUI(u) /\ deletedArticles' # deletedArticles
    \/ \E u \in ArticleUrls : restoreArticleUI(u)
    \/ clearAllDeleted(TRUE)

OtherSavesFeeds ==
    \/ OtherAddFeed
    \/ \E id \in FeedIds : OtherRemoveFeed(id)

OtherSavesDeleted ==
    \/ \E u \in ArticleUrls : OtherDeleteArticle(u) /\ other'.deleted # other.deleted
    \/ \E u \in ArticleUrls : OtherRestoreArticle(u)

\* C20: with two controllers on one Store, the record a save leaves is the
\* serialization of the saving controller's collection and nothing else: an
\* entry that only the other controller holds, persisted by it earlier, is
\* gone from the record.  Nothing but a save changes the Store.
C20_LastWriteWins ==
    [][/\ ThisSavesFeeds =>
            /\ store'.feeds = Text(StringifyFeeds(customFeeds'))
            /\ store'.deleted = store.deleted
            /\ \A i \in 1..Len(other.feeds) :
                (\A k \in 1..Len(customFeeds') : customFeeds'[k] # other.feeds[i]) =>
                    \A k \in 1..Len(FeedsOfArray(loadCustomFeeds(store'))) :
                        FeedsOfArray(loadCustomFeeds(store'))[k] # other.feeds[i]
       /\ ThisSavesDeleted =>
            /\ store'.deleted = Text(StringifyUrls(deletedArticles'))
            /\ store'.feeds = store.feeds
       /\ OtherSavesFeeds =>
            /\ store'.feeds = Text(StringifyFeeds(other'.feeds))
            /\ store'.deleted = store.deleted
       /\ OtherSavesDeleted =>
            /\ store'.deleted = Text(StringifyUrls(other'.deleted))
            /\ store'.feeds = store.feeds
       /\ store' # store =>
            (ThisSavesFeeds \/ ThisSavesDeleted \/ OtherSavesFeeds \/ OtherSavesDeleted)
      ]_vars

\* this tab, which found no feed at its bootstrap, has saved its one entry
\* over the record that held the other tab's older entry, and its empty
\* deletion collection over the URL the other tab still holds as deleted
C20_Witness ==
    /\ phase = "ready"
    /\ other.phase = "ready"
    /\ activeBadge = "0"
    /\ Len(customFeeds) = 1
    /\ Len(other.feeds) = 1
    /\ customFeeds[1].name = <<"A">>
    /\ other.feeds[1].name = <<"B">>
    /\ other.feeds[1].id < customFeeds[1].id
    /\ store.feeds = Text(StringifyFeeds(customFeeds))
    /\ other.deleted = <<UrlA>>
    /\ deletedArticles = <<>>
    /\ store.deleted = Text(JArr(<<>>))

\* the lines of a text: what the line breaks separate
RECURSIVE SplitLines(_)
SplitLines(text) ==
    IF \E i \in 1..Len(text) : text[i] = "\n"
    THEN LET i == CHOOSE i \in 1..Len(text) :
                    text[i] = "\n" /\ \A k \in 1..(i - 1) : text[k] # "\n"
         IN  <<SubSeq(text, 1, i - 1)>> \o SplitLines(SubSeq(text, i + 1, Len(text)))
    ELSE <<text>>

\* the line has the tokens of `part` in a row
Contains(line, part) ==
    \E k \in 0..(Len(line) - Len(part)) : SubSeq(line, k + 1, k + Len(part)) = part

\* a step in which the export hands a text to the clipboard
ExportProducesText ==
    \E access \in ClipboardAccess :
        exportCustomFeedsForYAML(access) /\ pendingCopy' # pendingCopy

\* C21, as stated: the text exported from n >= 1 feeds has exactly n lines,
\* the i-th holding the url, name and category of the i-th feed.
C21_ExportOneLinePerFeed ==
    [][ExportProducesText =>
        LET lines == SplitLines(pendingCopy'[Len(pendingCopy')])
        IN  /\ Len(lines) = Len(customFeeds)
            /\ \A i \in 1..Len(customFeeds) :
                /\ Contains(lines[i], customFeeds[i].url)
                /\ Contains(lines[i], customFeeds[i].name)
                /\ Contains(lines[i], customFeeds[i].category)
      ]_vars

\* C21, amended: the text exported from n >= 1 feeds has n + 1 lines, the
\* heading "# Custom feeds added by user" and then one line per feed in
\* collection order, the line of the i-th feed holding its url, then its
\* name, then its category.
C21_ExportHeaderThenOneLinePerFeed ==
    [][ExportProducesText =>
        LET lines == SplitLines(pendingCopy'[Len(pendingCopy')])
        IN  /\ Len(customFeeds) >= 1
            /\ Len(lines) = Len(customFeeds) + 1
            /\ lines[1] = <<"# Custom feeds added by user">>
            /\ \A i \in 1..Len(customFeeds) :
                /\ Contains(lines[i + 1], customFeeds[i].url)
                /\ Contains(lines[i + 1], customFeeds[i].name)
                /\ Contains(lines[i + 1], customFeeds[i].category)
                /\ lines[i + 1] = <<"  - ">> \o customFeeds[i].url \o <<"  # ">>
                        \o customFeeds[i].name \o <<" (">> \o customFeeds[i].category
                        \o <<")">>
      ]_vars

\* the export of the single feed A, https://f.example/rss, Lifestyle is on
\* its way to the clipboard: the heading and one line
C21_Witness ==
    /\ phase = "ready"
    /\ Len(customFeeds) = 1
    /\ customFeeds[1].category = <<"Lifestyle">>
    /\ pendingCopy = << <<"# Custom feeds added by user", "\n", "  - ", "https:",
                          "//f.example/rss", "  # ", "A", " (", "Lifestyle", ")">> >>

\* C22: when export runs on a non-empty collection and the clipboard
\* delivery does not succeed -- clipboard access is absent, or the write is
\* rejected -- the listing is shown on screen and no error leaves the
\* export operation.
C22_ExportFallsBackToListing ==
    [][/\ \A access \in ClipboardAccess :
            (exportCustomFeedsForYAML(access) /\ Len(customFeeds) > 0) =>
                /\ uncaught' = uncaught
                /\ access = "absent" => listingShown' = YamlContent(customFeeds)
       /\ ClipboardSettles(FALSE) =>
            /\ uncaught' = uncaught
            /\ listingShown' = Head(pendingCopy)
      ]_vars

\* C23: export -- the call and the later settling of the clipboard write,
\* fulfilled or rejected -- leaves both in-memory collections and both Store
\* records as they were, whatever the feed collection holds; with an empty
\* feed collection the only effect is the notice.
C23_ExportChangesNoData ==
    [][/\ ((\E access \in ClipboardAccess : exportCustomFeedsForYAML(access))
            \/ (\E fulfilled \in BOOLEAN : ClipboardSettles(fulfilled))) =>
            UNCHANGED <<customFeeds, deletedArticles, store>>
       /\ ((\E access \in ClipboardAccess : exportCustomFeedsForYAML(access))
            /\ Len(customFeeds) = 0) =>
            /\ alertMsg' = "No custom feeds to export."
            /\ UNCHANGED <<store, phase, customFeeds, deletedArticles, customCount,
                           deletedCount, activeBadge, page, items, clock, manageOpen,
                           feedsList, other, session, outside>>
      ]_vars

\* an export of one saved feed was rejected by the clipboard and listed on
\* screen; the feed is still in memory and in the Store
C23_Witness ==
    /\ phase = "ready"
    /\ Len(customFeeds) = 1
    /\ listingShown = YamlContent(customFeeds)
    /\ alertMsg = "Custom feeds:"
    /\ store.feeds = Text(StringifyFeeds(customFeeds))

\* C24: when the Store rejects the write of a mutating operation (add,
\* remove, toggle, delete, restore, clear all), the operation raises nothing
\* to the handler that invoked it, and afterwards the counters on the page
\* agree with the in-memory collections and with what the Store holds.
C24_StoreRejectionAbsorbed ==
    [][StoreRejectsWrite =>
        /\ uncaught' = uncaught
        /\ customCount' = ToString(Len(customFeeds'))
        /\ deletedCount' = ToString(Len(deletedArticles'))
        /\ customCount' = ToString(Len(loadCustomFeeds(store').v))
        /\ deletedCount' = ToString(Len(loadDeletedArticles(store').v))
      ]_vars

\* C25: the decoration routine is idempotent: however often it runs on the
\* page, every list item holds at most one action-control block, and a run
\* after the first changes nothing of the list items.
C25_DecorationIdempotent ==
    [][/\ Redecorate => items' = items
       /\ \A li \in ListItems : items'[li].blocks <= 1
      ]_vars

\* the page is decorated: a list item with outbound links holds its one
\* block, the restore control of a deleted article among them
C25_Witness ==
    /\ phase = "ready"
    /\ \A li \in ListItems : FirstOutbound(li) # 0 => items[li].blocks = 1
    /\ \E li \in ListItems : items[li].ctl.kind = "restore"
    /\ \E li \in ListItems : items[li].ctl.kind = "remove"
    /\ ENABLED Redecorate

\* the positions of `feeds` whose entry is not the one with id feedId
Survivors(feeds, feedId) == {i \in 1..Len(feeds) : feeds[i].id # feedId}

\* `after` is `before` without the entries of id feedId, the others in the
\* same relative order
KeepsOthersInOrder(before, after, feedId) ==
    /\ Len(after) = Cardinality(Survivors(before, feedId))
    /\ \A i \in Survivors(before, feedId) :
            after[Cardinality({k \in Survivors(before, feedId) : k <= i})] = before[i]

\* C26: the feed collection lists the surviving entries in the order in
\* which they were added: an accepted add places the new entry last and
\* leaves the others in place, a confirmed remove deletes every entry with
\* the id and keeps the relative order of the others, a toggle moves no
\* entry, and so the entries stand in the order of their creation times.
C26_InsertionOrderKept ==
    [][/\ (\E n \in NameInputs, u \in UrlInputs, c \in CategoryInputs :
                handleAddFeed(n, u, c) /\ alertMsg' = "Successfully added") =>
            /\ Len(customFeeds') = Len(customFeeds) + 1
            /\ SubSeq(customFeeds', 1, Len(customFeeds)) = customFeeds
            /\ customFeeds'[Len(customFeeds')].id = clock
       /\ \A id \in FeedIds :
            removeFeedUI(id, TRUE) => KeepsOthersInOrder(customFeeds, customFeeds', id)
       /\ \A id \in FeedIds :
            ToggleFeed(id) =>
                /\ Len(customFeeds') = Len(customFeeds)
                /\ \A i \in 1..Len(customFeeds) :
                        [customFeeds'[i] EXCEPT !.enabled = TRUE]
                            = [customFeeds[i] EXCEPT !.enabled = TRUE]
       /\ \A i, j \in 1..Len(customFeeds') :
            i < j => customFeeds'[i].id <= customFeeds'[j].id
      ]_vars

\* two feeds added at different times stand in the order of their adding;
\* the first has been toggled off since
C26_Witness ==
    /\ phase = "ready"
    /\ Len(customFeeds) = 2
    /\ customFeeds[1].id < customFeeds[2].id
    /\ ~customFeeds[1].enabled
    /\ customFeeds[2].enabled
    /\ store.feeds = Text(StringifyFeeds(customFeeds))

\* C27: starting from an empty Store, whatever is submitted in the add-feed
\* form (blank and unparseable fields included) and whatever is removed or
\* toggled, every entry of the feed collection has a non-empty name and a
\* non-empty url that parses as an absolute URL.
C27_EntriesWellFormed ==
    \A i \in 1..Len(customFeeds) :
        /\ customFeeds[i].name # <<>>
        /\ customFeeds[i].url # <<>>
        /\ ~NewURLThrows(customFeeds[i].url)

\* one feed is in the collection and the submission after it, with a url
\* that does not parse, has just been turned down
C27_Witness ==
    /\ phase = "ready"
    /\ Len(customFeeds) = 1
    /\ customFeeds[1].name = <<"A">>
    /\ customFeeds[1].url = <<"https:", "//f.example/rss">>
    /\ alertMsg = "Please enter a valid URL."

\* C28: when the user declines the confirmation of a feed removal or of
\* clear-all, nothing changes: both in-memory collections, both Store
\* records, the counters and the state of every list item are as before,
\* and no reload is started.
C28_DeclinedConfirmChangesNothing ==
    [][((\E id \in FeedIds : removeFeedUI(id, FALSE)) \/ clearAllDeleted(FALSE)) =>
            UNCHANGED <<customFeeds, deletedArticles, store, customCount, deletedCount,
                        items, phase>>
      ]_vars

\* a feed and a deleted article are there to lose: the user can be asked
\* about removing that feed and about clearing the deleted articles
C28_Witness ==
    /\ phase = "ready"
    /\ Len(customFeeds) = 1
    /\ Len(deletedArticles) = 1
    /\ \E li \in ListItems : items[li].hidden
    /\ ENABLED removeFeedUI(customFeeds[1].id, FALSE)
    /\ ENABLED clearAllDeleted(FALSE)

\* the chips that carry the class active
ActiveChips == {i \in 1..Len(chips) : chips[i].active}

RECURSIVE SumOfChipCounts(_)
SumOfChipCounts(row) ==
    IF row = <<>> THEN 0
    ELSE SumOfChipCounts(SubSeq(row, 1, Len(row) - 1)) + row[Len(row)].text.count

\* C29: once the chips are initialized, and after any clicks on them,
\* exactly one chip is active; a card is displayed if and only if the
\* active chip is the All chip (the first) or the card's category is the
\* active chip's category; the count on the All chip is the number of cards
\* and the sum of the counts on the category chips.
C29_ChipsFilterCards ==
    readyState # "loading" =>
        /\ Cardinality(ActiveChips) = 1
        /\ \A a \in ActiveChips : \A c \in 1..Len(cards) :
                cards[c].shown <=> (a = 1 \/ CardCategory(cards[c]) = chips[a].key)
        /\ chips[1].text.count = Len(cards)
        /\ chips[1].text.count = SumOfChipCounts(Tail(chips))

\* C30: however often thanks.js is executed, and whenever relative to the
\* end of loading (twice while the document is still loading included), the
\* document holds at most one support note.
C30_AtMostOneSupportNote ==
    supportNotes <= 1
====
